---- MODULE Spec2Model ----
(***************************************************************************)
(* State-machine model of nekro-agent's execution-scheduling and broadcast *)
(* layer:                                                                  *)
(*   - MessageService (services/message_service.py): per-channel debounced *)
(*     agent scheduling, stop_chat_task, retry loop, completion handler;   *)
(*   - MessageBroadcaster / ChannelBroadcaster: topic fan-out queues.      *)
(* Every asyncio task is a record with a program counter; one action is    *)
(* one run of a coroutine between two suspension points (await).           *)
(***************************************************************************)
EXTENDS Integers, Sequences, FiniteSets, TLC

\* ------------------------------------------------------------------ bounds
\* schedule_agent_task calls explored together with stop_chat_task and failures
MaxSubmits == 2
\* schedule_agent_task calls explored in the specification without them
MaxBurst == 3
\* stop_chat_task calls
MaxStops == 1
\* the last clock reading
MaxClock == 5
\* subscribe() calls on the two broadcasters together
MaxSubscribers == 3
\* publish / publish_update calls together
MaxPublishes == 2
\* QuotaService calls
MaxQuotaCalls == 3
\* the largest amount passed to set_boost / add_boost
MaxAmount == 2
MaxCountCalls == 2
MaxPushes == 1
MaxGateBoosts == 1
MaxLimit == 1
MaxDailyCount == 3

\* ------------------------------------------------------- program constants
\* config.AI_DEBOUNCE_WAIT_SECONDS, in clock ticks
AI_DEBOUNCE_WAIT_SECONDS == 2
\* for _i in range(3)
RetryRangeMutant == 3 + 1
RetryRange == 3

Channels == {"c1", "c2"}
\* the channels the scheduler specification drives
SchedChannels == {"c1"}

\* a key that is absent from debounce_timers
NoTimer == -1
\* None where a ChatMessage is expected
NoMsg == [sid |-> 0, empty |-> FALSE, message_id |-> FALSE]
\* a key that is absent from running_tasks
NoTask == 0
\* the maxsize of `asyncio.Queue()`, the only way the broadcasters make a queue
QueueMaxsize == 0

\* the dates the quota specification lets datetime.date.today() return: the
\* two sides of a year's end and a day that shares year and month with one
Dates == {[year |-> 2024, month |-> 12, day |-> 31],
          [year |-> 2025, month |-> 1, day |-> 1],
          [year |-> 2025, month |-> 1, day |-> 31]}
\* the amounts passed to set_boost and add_boost
Amounts == 0..MaxAmount

VARIABLES
  running_tasks,     \* chat_key -> index into runs (NoTask: key absent)
  debounce_timers,   \* chat_key -> time stamp (NoTimer: key absent)
  pending_messages,  \* chat_key -> ChatMessage (NoMsg: key absent)
  clock,             \* the value time.time() returns, in ticks
  emoji,             \* adapter.config.SESSION_PROCESSING_WITH_EMOJI
  submits,           \* one record per schedule_agent_task call, with its _debounce_task
  runs,              \* one record per _run_chat_agent_task task, in creation order
  stops,             \* one record per stop_chat_task call
  mb_queues,         \* MessageBroadcaster.queues: chat_key -> list of queues
  cb_queues,         \* ChannelBroadcaster.queues: list of queues
  subs,              \* one record per subscribe() generator, with its asyncio.Queue
  published,         \* one record per publish / publish_update call
  counted,           \* one record per get_subscriber_count call
  daily_boosts,      \* QuotaService._daily_boosts: chat_key -> {"date", "boost"}
  today,             \* the value datetime.date.today() returns
  quota_calls,       \* one record per QuotaService call, in call order
  pushes             \* one record per push_human_message call

schedVars == <<running_tasks, debounce_timers, pending_messages, clock, emoji,
               submits, runs, stops>>
bcVars == <<mb_queues, cb_queues, subs, published, counted>>
quotaVars == <<daily_boosts, today, quota_calls>>
gateVars == <<pushes>>
vars == <<schedVars, bcVars, quotaVars, gateVars>>

\* ------------------------------------------------------------------ helpers
\* asyncio.Task.done()
TaskDone(r) == runs[r].pc \in {"done", "cancelled", "raised"}

\* `message and adapter.config.SESSION_PROCESSING_WITH_EMOJI and message.message_id`
Reacts(message) == message # NoMsg /\ emoji /\ message.message_id

\* ChatMessage of the sid-th submit.  kind "message" is a caller's message
\* with a message_id, kind "noid" a caller's message whose message_id is ""
\* (both are stored as they are), kind "empty" is
\* ChatMessage.create_empty(chat_key), made when the caller passes no message.
\* The field message_id is the truth value of the id.
MessageKinds == {"message", "noid", "empty"}
MakeMessage(sid, kind) ==
  IF kind = "empty"
  THEN [sid |-> sid, empty |-> TRUE, message_id |-> FALSE]
  ELSE IF kind = "noid"
  THEN [sid |-> sid, empty |-> FALSE, message_id |-> FALSE]
  ELSE [sid |-> sid, empty |-> FALSE, message_id |-> TRUE]

\* asyncio.create_task(self._run_chat_agent_task(chat_key, message, ctx));
\* on and off count the task's calls of set_message_reaction with True and
\* with False
NewRun(c, ev, message, ctx, by) ==
  [chat_key |-> c, ev |-> ev, message |-> message, ctx |-> ctx, by |-> by,
   pc |-> "adapter", calls |-> 0, how |-> "none", must_cancel |-> FALSE,
   on |-> 0, off |-> 0]

\* ------------------------------------------------------------------ Init
Init ==
  /\ running_tasks = [c \in Channels |-> NoTask]
  /\ debounce_timers = [c \in Channels |-> NoTimer]
  /\ pending_messages = [c \in Channels |-> NoMsg]
  /\ clock = 0
  /\ emoji \in BOOLEAN
  /\ submits = <<>>
  /\ runs = <<>>
  /\ stops = <<>>
  /\ mb_queues = <<>>
  /\ cb_queues = <<>>
  /\ subs = <<>>
  /\ published = <<>>
  /\ counted = <<>>
  /\ daily_boosts = <<>>
  /\ today = [year |-> 2024, month |-> 12, day |-> 31]
  /\ quota_calls = <<>>
  /\ pushes = <<>>

\* time passes
Tick ==
  /\ UNCHANGED <<bcVars, quotaVars, gateVars>>
  /\ clock < MaxClock
  /\ clock' = clock + 1
  /\ UNCHANGED <<running_tasks, debounce_timers, pending_messages, emoji,
                 submits, runs, stops>>

\* ------------------------------------------------- schedule_agent_task
\* `self.pending_messages[chat_key] = message`
StorePendingMutant(c, message) ==
  IF pending_messages[c] = NoMsg
  THEN [pending_messages EXCEPT ![c] = message]
  ELSE pending_messages
StorePending(c, message) == [pending_messages EXCEPT ![c] = message]

\* The whole call is one step: it has no await.  ctx is the AgentCtx made for
\* this call, identified by the call's serial number.
Submit(c, kind) ==
  /\ LET sid == Len(submits) + 1
         message == MakeMessage(sid, kind)
         busy == running_tasks[c] # NoTask /\ ~TaskDone(running_tasks[c])
     IN /\ pending_messages' = StorePending(c, message)
        /\ debounce_timers' = [debounce_timers EXCEPT ![c] = clock]
        /\ submits' = Append(submits,
              [chat_key |-> c, start_time |-> clock, message |-> message,
               ctx |-> sid, pc |-> IF busy THEN "none" ELSE "db",
               wake_at |-> 0, runs_before |-> Len(runs)])
  /\ UNCHANGED <<running_tasks, clock, emoji, runs, stops>>

\* schedule_agent_task called on its own
schedule_agent_task(c, kind) ==
  /\ UNCHANGED <<bcVars, quotaVars, gateVars>>
  /\ Submit(c, kind)

\* what `self.pending_messages.pop(chat_key, None)` leaves in the map
PopPendingMutant(c) == pending_messages
PopPending(c) == [pending_messages EXCEPT ![c] = NoMsg]

\* ------------------------------------------------------- _debounce_task
\* await DBChatChannel.get(...); await get_effective_config(); then the
\* coroutine reaches asyncio.sleep(AI_DEBOUNCE_WAIT_SECONDS)
DebounceLookup(d) ==
  /\ UNCHANGED <<bcVars, quotaVars, gateVars>>
  /\ submits[d].pc = "db"
  /\ submits' = [submits EXCEPT ![d].pc = "sleep",
                                ![d].wake_at = clock + AI_DEBOUNCE_WAIT_SECONDS]
  /\ UNCHANGED <<running_tasks, debounce_timers, pending_messages, clock, emoji,
                 runs, stops>>

\* `if start_time != self.debounce_timers[chat_key]: return`
IsStaleMutant(start_time, stamp) == FALSE
IsStale(start_time, stamp) == start_time # stamp

\* the sleep is over: stamp check, pop of the pending message, task creation
DebounceWake(d) ==
  /\ UNCHANGED <<bcVars, quotaVars, gateVars>>
  /\ submits[d].pc = "sleep"
  /\ clock >= submits[d].wake_at
  /\ LET c == submits[d].chat_key
         final_message == pending_messages[c]
     IN IF debounce_timers[c] = NoTimer
        THEN \* self.debounce_timers[chat_key] raises KeyError
             /\ submits' = [submits EXCEPT ![d].pc = "keyerror", ![d].wake_at = 0]
             /\ UNCHANGED <<running_tasks, pending_messages, runs>>
        ELSE IF IsStale(submits[d].start_time, debounce_timers[c])
        THEN /\ submits' = [submits EXCEPT ![d].pc = "stale", ![d].wake_at = 0]
             /\ UNCHANGED <<running_tasks, pending_messages, runs>>
        ELSE IF final_message = NoMsg
        THEN /\ submits' = [submits EXCEPT ![d].pc = "nopending", ![d].wake_at = 0]
             /\ UNCHANGED <<running_tasks, pending_messages, runs>>
        ELSE /\ submits' = [submits EXCEPT ![d].pc = "started", ![d].wake_at = 0]
             /\ pending_messages' = PopPending(c)
             /\ runs' = Append(runs,
                   NewRun(c, final_message.sid,
                          IF final_message.empty THEN NoMsg ELSE final_message,
                          submits[d].ctx, "debounce"))
             /\ running_tasks' = [running_tasks EXCEPT ![c] = Len(runs) + 1]
  /\ UNCHANGED <<debounce_timers, clock, emoji, stops>>

\* ------------------------------------------------- _run_chat_agent_task
\* (mutant of Complete: the pending message is popped and no task is created)
CompleteMutant(r, rt, rs) ==
  LET c == rs[r].chat_key
  IN /\ pending_messages' = [pending_messages EXCEPT ![c] = NoMsg]
     /\ debounce_timers' = [debounce_timers EXCEPT ![c] = NoTimer]
     /\ runs' = [rs EXCEPT ![r].pc = "done"]
     /\ running_tasks' = rt

\* The tail of the finally block, after the (optional) reaction await:
\* pop pending and timer, re-chain.  rt and rs are running_tasks and runs as
\* the earlier part of the step left them.
Complete(r, rt, rs) ==
  LET c == rs[r].chat_key
      final_message == pending_messages[c]
      fin == [rs EXCEPT ![r].pc = "done"]
  IN /\ pending_messages' = PopPending(c)
     /\ debounce_timers' = [debounce_timers EXCEPT ![c] = NoTimer]
     /\ IF final_message # NoMsg
        THEN /\ runs' = Append(fin, NewRun(c, final_message.sid, final_message,
                                           rs[r].ctx, "rechain"))
             /\ running_tasks' = [rt EXCEPT ![c] = Len(fin) + 1]
        ELSE /\ runs' = fin
             /\ running_tasks' = rt

\* (mutant of EnterFinally: every channel's handle is deleted)
EnterFinallyMutant(r, how, base) ==
  LET rt == [k \in Channels |-> NoTask]
      rs == [base EXCEPT ![r].how = how, ![r].must_cancel = FALSE]
  IN IF Reacts(base[r].message)
     THEN /\ running_tasks' = rt
          /\ runs' = [rs EXCEPT ![r].pc = "react_off", ![r].off = @ + 1]
          /\ UNCHANGED <<pending_messages, debounce_timers>>
     ELSE Complete(r, rt, rs)

\* The try statement is left (how: "success", "exhausted" or "cancelled"): the
\* head of the finally block up to its first suspension point.  base is runs
\* with the counters of the attempt that just ended.
EnterFinally(r, how, base) ==
  LET c == base[r].chat_key
      rt == [running_tasks EXCEPT ![c] = NoTask]
      rs == [base EXCEPT ![r].how = how, ![r].must_cancel = FALSE]
  IN IF Reacts(base[r].message)
     THEN /\ running_tasks' = rt
          /\ runs' = [rs EXCEPT ![r].pc = "react_off", ![r].off = @ + 1]
          /\ UNCHANGED <<pending_messages, debounce_timers>>
     ELSE Complete(r, rt, rs)

\* await adapter_utils.get_adapter_for_chat(chat_key) returns;
\* set_message_reaction(message_id, True) is called if the condition holds
RunAdapter(r) ==
  /\ UNCHANGED <<bcVars, quotaVars, gateVars>>
  /\ runs[r].pc = "adapter"
  /\ ~runs[r].must_cancel
  /\ runs' = IF Reacts(runs[r].message)
             THEN [runs EXCEPT ![r].pc = "react_on", ![r].on = @ + 1]
             ELSE [runs EXCEPT ![r].pc = "agent", ![r].calls = 1]
  /\ UNCHANGED <<running_tasks, debounce_timers, pending_messages, clock, emoji,
                 submits, stops>>

\* await adapter.set_message_reaction(message_id, True) returns; the try
\* statement is entered and run_agent is called for the first time
RunReactOn(r) ==
  /\ UNCHANGED <<bcVars, quotaVars, gateVars>>
  /\ runs[r].pc = "react_on"
  /\ ~runs[r].must_cancel
  /\ runs' = [runs EXCEPT ![r].pc = "agent", ![r].calls = 1]
  /\ UNCHANGED <<running_tasks, debounce_timers, pending_messages, clock, emoji,
                 submits, stops>>

\* await adapter.set_message_reaction(message_id, True) raises an Exception:
\* the try statement has not been entered, the coroutine ends with the error
RunReactOnRaises(r) ==
  /\ UNCHANGED <<bcVars, quotaVars, gateVars>>
  /\ runs[r].pc = "react_on"
  /\ ~runs[r].must_cancel
  /\ runs' = [runs EXCEPT ![r].pc = "raised", ![r].how = "hook_on"]
  /\ UNCHANGED <<running_tasks, debounce_timers, pending_messages, clock, emoji,
                 submits, stops>>

\* await run_agent(...) returns (ok) or raises an Exception (~ok): break, the
\* next pass of the for loop, or its else branch after the last pass
RunAgent(r, ok) ==
  /\ UNCHANGED <<bcVars, quotaVars, gateVars>>
  /\ runs[r].pc = "agent"
  /\ ~runs[r].must_cancel
  /\ IF ok
     THEN EnterFinally(r, "success", runs)
     ELSE IF runs[r].calls < RetryRange
     THEN /\ runs' = [runs EXCEPT ![r].calls = @ + 1]
          /\ UNCHANGED <<running_tasks, pending_messages, debounce_timers>>
     ELSE EnterFinally(r, "exhausted", runs)
  /\ UNCHANGED <<clock, emoji, submits, stops>>

\* await adapter.set_message_reaction(message_id, False) returns inside finally
RunReactOff(r) ==
  /\ UNCHANGED <<bcVars, quotaVars, gateVars>>
  /\ runs[r].pc = "react_off"
  /\ ~runs[r].must_cancel
  /\ Complete(r, running_tasks, runs)
  /\ UNCHANGED <<clock, emoji, submits, stops>>

\* await adapter.set_message_reaction(message_id, False) raises an Exception
\* inside the finally block: the rest of the block is not executed
RunReactOffRaises(r) ==
  /\ UNCHANGED <<bcVars, quotaVars, gateVars>>
  /\ runs[r].pc = "react_off"
  /\ ~runs[r].must_cancel
  /\ runs' = [runs EXCEPT ![r].pc = "raised"]
  /\ UNCHANGED <<running_tasks, debounce_timers, pending_messages, clock, emoji,
                 submits, stops>>

\* (mutant of RunCancelled: a cancellation inside run_agent is handled like a
\* failed attempt)
RunCancelledMutant(r) ==
  /\ UNCHANGED <<bcVars, quotaVars, gateVars>>
  /\ runs[r].must_cancel
  /\ ~TaskDone(r)
  /\ IF runs[r].pc = "agent"
     THEN IF runs[r].calls < RetryRange
          THEN /\ runs' = [runs EXCEPT ![r].calls = @ + 1, ![r].must_cancel = FALSE]
               /\ UNCHANGED <<running_tasks, pending_messages, debounce_timers>>
          ELSE EnterFinally(r, "exhausted", runs)
     ELSE /\ runs' = [runs EXCEPT ![r].pc = "cancelled", ![r].must_cancel = FALSE,
                                  ![r].how = IF @ = "none" THEN "cancelled" ELSE @]
          /\ UNCHANGED <<running_tasks, pending_messages, debounce_timers>>
  /\ UNCHANGED <<clock, emoji, submits, stops>>

\* The task's next step after task.cancel(): CancelledError is raised at the
\* await the coroutine is suspended in.  Before the try statement nothing
\* catches it; inside run_agent the handlers of lines 180 and 190 do and the
\* finally block runs; inside the finally block its remainder is skipped.
RunCancelled(r) ==
  /\ UNCHANGED <<bcVars, quotaVars, gateVars>>
  /\ runs[r].must_cancel
  /\ ~TaskDone(r)
  /\ IF runs[r].pc = "agent"
     THEN EnterFinally(r, "cancelled", runs)
     ELSE /\ runs' = [runs EXCEPT ![r].pc = "cancelled", ![r].must_cancel = FALSE,
                                  ![r].how = IF @ = "none" THEN "cancelled" ELSE @]
          /\ UNCHANGED <<running_tasks, pending_messages, debounce_timers>>
  /\ UNCHANGED <<clock, emoji, submits, stops>>

\* ------------------------------------------------------- stop_chat_task
\* (mutant of StopCall: the pending message is cleared with the timer)
StopCallMutant(c) ==
  /\ UNCHANGED <<bcVars, quotaVars, gateVars>>
  /\ debounce_timers' = [debounce_timers EXCEPT ![c] = NoTimer]
  /\ pending_messages' = [pending_messages EXCEPT ![c] = NoMsg]
  /\ stops' = Append(stops,
        [chat_key |-> c, pc |-> "sandbox", stopped |-> FALSE, task |-> NoTask,
         container_stopped |-> FALSE,
         had_task |-> (running_tasks[c] # NoTask /\ ~TaskDone(running_tasks[c])),
         had_pending |-> pending_messages[c].sid])
  /\ UNCHANGED <<running_tasks, clock, emoji, submits, runs>>

\* The call up to `await stop_sandbox_container(chat_key)`
StopCall(c) ==
  /\ UNCHANGED <<bcVars, quotaVars, gateVars>>
  /\ debounce_timers' = [debounce_timers EXCEPT ![c] = NoTimer]
  /\ stops' = Append(stops,
        [chat_key |-> c, pc |-> "sandbox", stopped |-> FALSE, task |-> NoTask,
         container_stopped |-> FALSE,
         had_task |-> (running_tasks[c] # NoTask /\ ~TaskDone(running_tasks[c])),
         had_pending |-> pending_messages[c].sid])
  /\ UNCHANGED <<running_tasks, pending_messages, clock, emoji, submits, runs>>

\* stop_sandbox_container returns container_stopped; then the running task,
\* if any, is cancelled and awaited
StopSandboxReturns(s, container_stopped) ==
  /\ UNCHANGED <<bcVars, quotaVars, gateVars>>
  /\ stops[s].pc = "sandbox"
  /\ LET c == stops[s].chat_key
         task == running_tasks[c]
     IN IF task # NoTask /\ ~TaskDone(task)
        THEN /\ runs' = [runs EXCEPT ![task].must_cancel = TRUE]
             /\ stops' = [stops EXCEPT ![s].pc = "await_task", ![s].task = task,
                                       ![s].stopped = container_stopped,
                                       ![s].container_stopped = container_stopped]
        ELSE /\ stops' = [stops EXCEPT ![s].pc = "returned",
                                       ![s].stopped = container_stopped,
                                       ![s].container_stopped = container_stopped]
             /\ UNCHANGED runs
  /\ UNCHANGED <<running_tasks, debounce_timers, pending_messages, clock, emoji,
                 submits>>

\* stop_sandbox_container raises: nothing in stop_chat_task catches it
StopSandboxRaises(s) ==
  /\ UNCHANGED <<bcVars, quotaVars, gateVars>>
  /\ stops[s].pc = "sandbox"
  /\ stops' = [stops EXCEPT ![s].pc = "raised"]
  /\ UNCHANGED <<running_tasks, debounce_timers, pending_messages, clock, emoji,
                 submits, runs>>

\* `await task` ends: the task returned, or it ended cancelled and the
\* CancelledError is caught at line 74; stopped = True; return stopped
StopAwaitReturns(s) ==
  /\ UNCHANGED <<bcVars, quotaVars, gateVars>>
  /\ stops[s].pc = "await_task"
  /\ runs[stops[s].task].pc \in {"done", "cancelled"}
  /\ stops' = [stops EXCEPT ![s].pc = "returned", ![s].stopped = TRUE]
  /\ UNCHANGED <<running_tasks, debounce_timers, pending_messages, clock, emoji,
                 submits, runs>>

\* `await task` raises the exception the task ended with (one that
\* set_message_reaction raised): `except asyncio.CancelledError` does not
\* catch it and stop_chat_task ends with it, returning nothing
StopAwaitRaises(s) ==
  /\ UNCHANGED <<bcVars, quotaVars, gateVars>>
  /\ stops[s].pc = "await_task"
  /\ runs[stops[s].task].pc = "raised"
  /\ stops' = [stops EXCEPT ![s].pc = "raised"]
  /\ UNCHANGED <<running_tasks, debounce_timers, pending_messages, clock, emoji,
                 submits, runs>>

\* ------------------------------------------------------------ broadcasters
\* the single key of the channel-list broadcaster
Global == "*"

\* list.remove(queue): the list without its first element equal to q
Remove(list, q) ==
  LET i == CHOOSE j \in 1..Len(list) :
             list[j] = q /\ \A k \in 1..(j - 1) : list[k] # q
  IN [j \in 1..(Len(list) - 1) |-> IF j < i THEN list[j] ELSE list[j + 1]]

\* the queues registered under chat_key: self.queues.get(chat_key, [])
MbList(chat_key) ==
  IF chat_key \in DOMAIN mb_queues THEN mb_queues[chat_key] ELSE <<>>

\* asyncio.Queue.full(): `if self._maxsize <= 0: return False`, else
\* `return self.qsize() >= self._maxsize`
full(queue) == IF QueueMaxsize <= 0 THEN FALSE ELSE Len(queue) >= QueueMaxsize

\* `try: queue.put_nowait(event)  except asyncio.QueueFull: logger.warning(...)`:
\* (mutant of put_nowait: the event is put at the head of the queue)
put_nowaitMutant(queue, event) == IF full(queue) THEN queue ELSE <<event>> \o queue
\* put_nowait raises QueueFull when full() and appends otherwise
put_nowait(queue, event) == IF full(queue) THEN queue ELSE Append(queue, event)

\* the publish loop: put_nowait on each queue of the list
PutAllMutant(list, event) ==
  [s \in 1..Len(subs) |->
     IF Len(list) > 0 /\ list[1] = s
     THEN [subs[s] EXCEPT !.queue = Append(@, event)]
     ELSE subs[s]]
PutAll(list, event) ==
  [s \in 1..Len(subs) |->
     IF \E i \in 1..Len(list) : list[i] = s
     THEN [subs[s] EXCEPT !.queue = put_nowait(@, event)]
     ELSE subs[s]]

\* subscribe(...) is called: an async generator object is made, none of its
\* body has run
subscribe(bc, topic) ==
  /\ UNCHANGED <<schedVars, quotaVars, gateVars, counted>>
  /\ subs' = Append(subs, [bc |-> bc, topic |-> topic, pc |-> "new",
                           queue |-> <<>>, yielded |-> <<>>,
                           reg_at |-> 0, unreg_at |-> 0])
  /\ UNCHANGED <<mb_queues, cb_queues, published>>

\* the first __anext__: the body runs up to `await queue.get()`, which
\* registers the new queue
Register(s) ==
  /\ UNCHANGED <<schedVars, quotaVars, gateVars, counted>>
  /\ subs[s].pc = "new"
  /\ subs' = [subs EXCEPT ![s].pc = "waiting", ![s].reg_at = Len(published)]
  /\ IF subs[s].bc = "message"
     THEN /\ mb_queues' =
               [k \in DOMAIN mb_queues \cup {subs[s].topic} |->
                  IF k = subs[s].topic THEN Append(MbList(k), s) ELSE mb_queues[k]]
          /\ UNCHANGED cb_queues
     ELSE /\ cb_queues' = Append(cb_queues, s)
          /\ UNCHANGED mb_queues
  /\ UNCHANGED published

\* `message = await queue.get(); yield message`
Yield(s) ==
  /\ UNCHANGED <<schedVars, quotaVars, gateVars, counted>>
  /\ subs[s].pc = "waiting"
  /\ subs[s].queue # <<>>
  /\ subs' = [subs EXCEPT ![s].queue = Tail(@),
                          ![s].yielded = Append(@, Head(subs[s].queue))]
  /\ UNCHANGED <<mb_queues, cb_queues, published>>

\* the finally block of MessageBroadcaster.subscribe:
\* `self.queues[chat_key].remove(queue)`, then
\* `if not self.queues[chat_key]: del self.queues[chat_key]`
LeaveMutant(queues, chat_key, q) ==
  [queues EXCEPT ![chat_key] = Remove(queues[chat_key], q)]
Leave(queues, chat_key, q) ==
  LET left == Remove(queues[chat_key], q)
  IN IF left = <<>>
     THEN [k \in DOMAIN queues \ {chat_key} |-> queues[k]]
     ELSE [queues EXCEPT ![chat_key] = left]

\* get_all_subscribed_channels: list(self.queues.keys())
get_all_subscribed_channels == DOMAIN mb_queues

\* the generator is cancelled or closed: a started one runs its finally block
Unsubscribe(s) ==
  /\ UNCHANGED <<schedVars, quotaVars, gateVars, counted>>
  /\ subs[s].pc \in {"new", "waiting"}
  /\ subs' = [subs EXCEPT
               ![s].pc = IF subs[s].pc = "new" THEN "discarded" ELSE "closed",
               ![s].unreg_at = Len(published)]
  /\ IF subs[s].pc = "new"
     THEN UNCHANGED <<mb_queues, cb_queues>>
     ELSE IF subs[s].bc = "message"
     THEN /\ mb_queues' = Leave(mb_queues, subs[s].topic, s)
          /\ UNCHANGED cb_queues
     ELSE /\ cb_queues' = Remove(cb_queues, s)
          /\ UNCHANGED mb_queues
  /\ UNCHANGED published

\* (mutant of publish: the event is put in the queues of every chat_key)
publishAllMutant(chat_key) ==
  /\ UNCHANGED <<schedVars, quotaVars, gateVars, counted>>
  /\ published' = Append(published, [bc |-> "message", topic |-> chat_key])
  /\ subs' = [s \in 1..Len(subs) |->
               IF \E k \in DOMAIN mb_queues :
                    \E i \in 1..Len(mb_queues[k]) : mb_queues[k][i] = s
               THEN [subs[s] EXCEPT !.queue = put_nowait(@, Len(published) + 1)]
               ELSE subs[s]]
  /\ UNCHANGED <<mb_queues, cb_queues>>

\* (mutant of publish: the list of the chat_key is looked up with setdefault)
publishSetdefaultMutant(chat_key) ==
  /\ UNCHANGED <<schedVars, quotaVars, gateVars, counted>>
  /\ published' = Append(published, [bc |-> "message", topic |-> chat_key])
  /\ subs' = PutAll(MbList(chat_key), Len(published) + 1)
  /\ mb_queues' = [k \in DOMAIN mb_queues \cup {chat_key} |-> MbList(k)]
  /\ UNCHANGED cb_queues

\* MessageBroadcaster.publish(chat_key, message); the event is identified by
\* the serial number of the call
publish(chat_key) ==
  /\ UNCHANGED <<schedVars, quotaVars, gateVars, counted>>
  /\ published' = Append(published, [bc |-> "message", topic |-> chat_key])
  /\ subs' = IF chat_key \notin DOMAIN mb_queues
             THEN subs
             ELSE PutAll(mb_queues[chat_key], Len(published) + 1)
  /\ UNCHANGED <<mb_queues, cb_queues>>

\* ChannelBroadcaster.publish_update(event_type, chat_key, ...)
publish_update ==
  /\ UNCHANGED <<schedVars, quotaVars, gateVars, counted>>
  /\ published' = Append(published, [bc |-> "channel", topic |-> Global])
  /\ subs' = PutAll(cb_queues, Len(published) + 1)
  /\ UNCHANGED <<mb_queues, cb_queues>>

\* get_subscriber_count
\* (mutant of get_subscriber_count: the number of subscribed channels)
get_subscriber_countMutant(chat_key) == Cardinality(DOMAIN mb_queues)
\* MessageBroadcaster: `return len(self.queues.get(chat_key, []))`
get_subscriber_count(chat_key) == Len(MbList(chat_key))
\* ChannelBroadcaster: `return len(self.queues)`
cb_get_subscriber_count == Len(cb_queues)

\* a call of get_subscriber_count on either broadcaster: dict.get and len
\* read the registry and the result is returned
CountCall(bc, topic) ==
  /\ UNCHANGED <<schedVars, quotaVars, gateVars>>
  /\ counted' = Append(counted,
        [bc |-> bc, topic |-> topic,
         ret |-> IF bc = "message" THEN get_subscriber_count(topic)
                 ELSE cb_get_subscriber_count])
  /\ UNCHANGED <<mb_queues, cb_queues, subs, published>>

\* ------------------------------------------------------------ QuotaService
\* datetime.date.isoformat(): the fields in the order year-month-day
isoformat(date) == <<date.year, date.month, date.day>>

\* _today_str at a moment when date.today() returns `date`
today_str(date) == isoformat(date)

\* get_boost(chat_key) on the store `boosts` when date.today() is `date`:
\* `info = self._daily_boosts.get(chat_key)`;
\* `if not info or info["date"] != self._today_str(): return 0`
GetBoostMutant(boosts, chat_key, date) ==
  IF chat_key \notin DOMAIN boosts THEN 0 ELSE boosts[chat_key].boost
GetBoost(boosts, chat_key, date) ==
  IF chat_key \notin DOMAIN boosts \/ boosts[chat_key].date # today_str(date)
  THEN 0
  ELSE boosts[chat_key].boost

\* `self._daily_boosts[chat_key] = {"date": self._today_str(), "boost": amount}`
SetBoostMutant(boosts, chat_key, amount, date) ==
  [k \in DOMAIN boosts \cup {chat_key} |->
     IF k # chat_key THEN boosts[k]
     ELSE IF k \in DOMAIN boosts
          THEN [date |-> boosts[k].date, boost |-> amount]
          ELSE [date |-> today_str(date), boost |-> amount]]
SetBoost(boosts, chat_key, amount, date) ==
  [k \in DOMAIN boosts \cup {chat_key} |->
     IF k = chat_key THEN [date |-> today_str(date), boost |-> amount]
     ELSE boosts[k]]

\* `new_total = current + amount`
NewTotalMutant(current, amount) == IF current > amount THEN current ELSE amount
NewTotal(current, amount) == current + amount

\* `self._daily_boosts.pop(chat_key, None)`
PopBoostMutant(boosts, chat_key) ==
  IF chat_key \in DOMAIN boosts
  THEN [boosts EXCEPT ![chat_key].boost = 0]
  ELSE boosts
PopBoost(boosts, chat_key) ==
  [k \in DOMAIN boosts \ {chat_key} |-> boosts[k]]

\* the record of one call: what it was given, the store and the date it
\* found, what it returned, the store and the date it left
QuotaCall(op, chat_key, amount, ret, after, date2) ==
  [op |-> op, key |-> chat_key, amount |-> amount, ret |-> ret,
   before |-> daily_boosts, after |-> after, date |-> today, date2 |-> date2]

\* the date changes (midnight, or the system clock is set)
DateChange(date) ==
  /\ UNCHANGED <<schedVars, bcVars, gateVars>>
  /\ date # today
  /\ today' = date
  /\ UNCHANGED <<daily_boosts, quota_calls>>

get_boostMutant(chat_key) ==
  /\ UNCHANGED <<schedVars, bcVars, gateVars>>
  /\ LET after == IF GetBoost(daily_boosts, chat_key, today) = 0
                  THEN PopBoost(daily_boosts, chat_key)
                  ELSE daily_boosts
     IN /\ quota_calls' = Append(quota_calls,
              QuotaCall("get_boost", chat_key, 0,
                        GetBoost(daily_boosts, chat_key, today), after, today))
        /\ daily_boosts' = after
  /\ UNCHANGED today
get_boost(chat_key) ==
  /\ UNCHANGED <<schedVars, bcVars, gateVars>>
  /\ quota_calls' = Append(quota_calls,
        QuotaCall("get_boost", chat_key, 0,
                  GetBoost(daily_boosts, chat_key, today), daily_boosts, today))
  /\ UNCHANGED <<daily_boosts, today>>

set_boost(chat_key, amount) ==
  /\ UNCHANGED <<schedVars, bcVars, gateVars>>
  /\ daily_boosts' = SetBoost(daily_boosts, chat_key, amount, today)
  /\ quota_calls' = Append(quota_calls,
        QuotaCall("set_boost", chat_key, amount, 0, daily_boosts', today))
  /\ UNCHANGED today

\* add_boost reads the date twice: in get_boost (line 39) and in set_boost
\* (line 41); date2 is the second reading: the first one again, or another
\* date when the date changed between the two
add_boost(chat_key, amount, date2) ==
  /\ UNCHANGED <<schedVars, bcVars, gateVars>>
  /\ LET current == GetBoost(daily_boosts, chat_key, today)
         new_total == NewTotal(current, amount)
     IN /\ daily_boosts' = SetBoost(daily_boosts, chat_key, new_total, date2)
        /\ quota_calls' = Append(quota_calls,
              QuotaCall("add_boost", chat_key, amount, new_total,
                        daily_boosts', date2))
  /\ today' = date2

clear_boost(chat_key) ==
  /\ UNCHANGED <<schedVars, bcVars, gateVars>>
  /\ daily_boosts' = PopBoost(daily_boosts, chat_key)
  /\ quota_calls' = Append(quota_calls,
        QuotaCall("clear_boost", chat_key, 0, 0, daily_boosts', today))
  /\ UNCHANGED today

\* ------------------------------------------------------ push_human_message
\* config.AI_CHAT_DAILY_REPLY_LIMIT; the values DBChatMessage's
\* get_daily_bot_reply_count returns; the plugins' MsgSignal ("OTHER": any
\* member the code does not name); the sender: a member of SUPER_USERS, of
\* AI_CHAT_DAILY_REPLY_WHITELIST_USERS, or of neither
Limits == 0..MaxLimit
DailyCounts == 0..MaxDailyCount
Signals == {"CONTINUE", "FORCE_TRIGGER", "BLOCK_ALL", "OTHER"}
Senders == {"super", "white", "plain"}

\* `if daily_count >= effective_limit:`
OverLimitMutant(daily_count, effective_limit) == daily_count > effective_limit
OverLimit(daily_count, effective_limit) == daily_count >= effective_limit

\* the condition under which the daily limit is examined
Limited(limit, sender) == limit > 0 /\ sender = "plain"

\* how far push_human_message gets with these inputs: the place of its
\* return, or "submitted".  trigger stands for the disjuncts of
\* should_trigger other than the signal.
PushOutcome(chat_key, in) ==
  IF ~in.valid THEN "invalid"
  ELSE IF in.forbidden THEN "forbidden"
  ELSE IF in.signal = "BLOCK_ALL" THEN "blocked"
  ELSE IF in.should_ignore \/ ~(in.trigger \/ in.signal = "FORCE_TRIGGER")
  THEN "stored"
  ELSE IF ~in.is_active THEN "inactive"
  ELSE IF /\ Limited(in.limit, in.sender)
          /\ OverLimit(in.daily_count,
                       in.limit + GetBoost(daily_boosts, chat_key, today))
  THEN "limit"
  ELSE IF in.signal \notin {"CONTINUE", "FORCE_TRIGGER"} THEN "signal"
  ELSE "submitted"

\* the inputs of one call; an input the call returns before reading (the
\* sender when the limit is 0, the count when the limit is not examined, ...)
\* is listed with one value only
PushInputs ==
  {in \in [valid : BOOLEAN, forbidden : BOOLEAN, signal : Signals,
           should_ignore : BOOLEAN, trigger : BOOLEAN, is_active : BOOLEAN,
           limit : Limits, sender : Senders, daily_count : DailyCounts] :
     LET checked == in.valid /\ ~in.forbidden
         stored == checked /\ in.signal # "BLOCK_ALL"
         wanted == /\ stored /\ ~in.should_ignore
                   /\ (in.trigger \/ in.signal = "FORCE_TRIGGER")
         gated == wanted /\ in.is_active
     IN /\ ~in.valid => ~in.forbidden
        /\ ~checked => in.signal = "CONTINUE"
        /\ ~stored => (~in.should_ignore /\ in.trigger)
        /\ ~wanted => in.is_active
        /\ ~gated => in.limit = 0
        /\ in.limit = 0 => in.sender = "plain"
        /\ ~(gated /\ Limited(in.limit, in.sender)) => in.daily_count = 0}

\* push_human_message(message, user, trigger_agent, db_chat_channel).  From
\* the return of get_daily_bot_reply_count to the end of schedule_agent_task
\* the coroutine is not suspended, so the boost is read and the submit is
\* made in one step.  The call's record keeps the inputs the limit depends on.
\* kind is the kind of the caller's message, which is submitted as it is.
push_human_message(chat_key, kind, in) ==
  /\ UNCHANGED <<bcVars, quotaVars>>
  /\ LET outcome == PushOutcome(chat_key, in)
     IN /\ pushes' = Append(pushes,
              [chat_key |-> chat_key, limit |-> in.limit, sender |-> in.sender,
               daily_count |-> in.daily_count, outcome |-> outcome])
        /\ IF outcome = "submitted"
           THEN Submit(chat_key, kind)
           ELSE UNCHANGED schedVars

\* ------------------------------------------------------------ specification
\* steps of the tasks the scheduler created
TaskStep ==
  \/ \E d \in 1..Len(submits) : DebounceLookup(d)
  \/ \E d \in 1..Len(submits) : DebounceWake(d)
  \/ \E r \in 1..Len(runs) : RunAdapter(r)
  \/ \E r \in 1..Len(runs) : RunReactOn(r)
  \/ \E r \in 1..Len(runs) : RunReactOff(r)

\* stop_chat_task calls and their steps
StopStep ==
  \/ Len(stops) < MaxStops /\ \E c \in SchedChannels : StopCall(c)
  \/ \E s \in 1..Len(stops), b \in BOOLEAN : StopSandboxReturns(s, b)
  \/ \E s \in 1..Len(stops) : StopSandboxRaises(s)
  \/ \E s \in 1..Len(stops) : StopAwaitReturns(s)
  \/ \E r \in 1..Len(runs) : RunCancelled(r)

\* The scheduler with every operation: submit, debounce, execution with an
\* agent-runner that succeeds or fails, stop.
Next ==
  \/ Tick
  \/ Len(submits) < MaxSubmits /\ \E c \in SchedChannels, kind \in {"message", "noid"} : schedule_agent_task(c, kind)
  \/ TaskStep
  \/ \E r \in 1..Len(runs), ok \in BOOLEAN : RunAgent(r, ok)
  \/ StopStep

Spec == Init /\ [][Next]_vars

\* Bursts of submits: submit, debounce and execution with an agent-runner
\* that succeeds; nobody calls stop_chat_task.
NextTimed ==
  \/ Tick
  \/ Len(submits) < MaxBurst /\ \E c \in SchedChannels, kind \in {"message", "noid"} : schedule_agent_task(c, kind)
  \/ TaskStep
  \/ \E r \in 1..Len(runs) : RunAgent(r, TRUE)

SpecTimed == Init /\ [][NextTimed]_vars

\* The scheduler with a presence hook that may fail: submit, debounce,
\* execution, stop; set_message_reaction returns or raises.
NextHook ==
  \/ Tick
  \/ Len(submits) < MaxSubmits /\ \E c \in SchedChannels, kind \in {"message", "noid"} : schedule_agent_task(c, kind)
  \/ TaskStep
  \/ \E r \in 1..Len(runs), ok \in BOOLEAN : RunAgent(r, ok)
  \/ \E r \in 1..Len(runs) : RunReactOnRaises(r)
  \/ \E r \in 1..Len(runs) : RunReactOffRaises(r)
  \/ StopStep
  \/ \E s \in 1..Len(stops) : StopAwaitRaises(s)

SpecHook == Init /\ [][NextHook]_vars

\* The scheduler with two channels: submit, debounce, execution and stop on
\* either of them.
NextChannels ==
  \/ Tick
  \/ Len(submits) < MaxSubmits /\ \E c \in Channels, kind \in {"message", "noid"} : schedule_agent_task(c, kind)
  \/ TaskStep
  \/ \E r \in 1..Len(runs), ok \in BOOLEAN : RunAgent(r, ok)
  \/ Len(stops) < MaxStops /\ \E c \in Channels : StopCall(c)
  \/ \E s \in 1..Len(stops), b \in BOOLEAN : StopSandboxReturns(s, b)
  \/ \E s \in 1..Len(stops) : StopSandboxRaises(s)
  \/ \E s \in 1..Len(stops) : StopAwaitReturns(s)
  \/ \E r \in 1..Len(runs) : RunCancelled(r)

SpecChannels == Init /\ [][NextChannels]_vars

\* The scheduler with submits that carry a message, with or without a
\* message_id, and submits that carry a chat_key only.
NextPlaceholder ==
  \/ Tick
  \/ /\ Len(submits) < MaxSubmits
     /\ \E c \in SchedChannels, kind \in MessageKinds :
          schedule_agent_task(c, kind)
  \/ TaskStep
  \/ \E r \in 1..Len(runs), ok \in BOOLEAN : RunAgent(r, ok)

SpecPlaceholder == Init /\ [][NextPlaceholder]_vars

\* The two broadcasters: subscribers come and go, events are published and
\* consumed.
NextBroadcast ==
  \/ /\ Len(subs) < MaxSubscribers
     /\ \/ \E k \in Channels : subscribe("message", k)
        \/ subscribe("channel", Global)
  \/ \E s \in 1..Len(subs) : Register(s)
  \/ \E s \in 1..Len(subs) : Yield(s)
  \/ \E s \in 1..Len(subs) : Unsubscribe(s)
  \/ Len(published) < MaxPublishes /\ \E k \in Channels : publish(k)
  \/ Len(published) < MaxPublishes /\ publish_update

SpecBroadcast == Init /\ [][NextBroadcast]_vars

\* The two registries: subscribers come and go and are counted.
NextCount ==
  \/ /\ Len(subs) < MaxSubscribers
     /\ \/ \E k \in Channels : subscribe("message", k)
        \/ subscribe("channel", Global)
  \/ \E s \in 1..Len(subs) : Register(s)
  \/ \E s \in 1..Len(subs) : Unsubscribe(s)
  \/ /\ Len(counted) < MaxCountCalls
     /\ \/ \E k \in Channels : CountCall("message", k)
        \/ CountCall("channel", Global)

SpecCount == Init /\ [][NextCount]_vars

\* The quota counter: calls on two keys, and the date changing between them.
NextQuota ==
  \/ \E date \in Dates : DateChange(date)
  \/ /\ Len(quota_calls) < MaxQuotaCalls
     /\ \E chat_key \in Channels :
          \/ get_boost(chat_key)
          \/ \E amount \in Amounts : set_boost(chat_key, amount)
          \/ \E amount \in Amounts, date2 \in Dates :
               add_boost(chat_key, amount, date2)
          \/ clear_boost(chat_key)

SpecQuota == Init /\ [][NextQuota]_vars

\* The daily limit: human messages are pushed while boosts are set and the
\* date changes; the scheduler runs what was submitted.
NextGate ==
  \/ Tick
  \/ Len(submits) < MaxPushes /\ \E c \in SchedChannels, kind \in {"message", "noid"} : schedule_agent_task(c, kind)
  \/ /\ Len(pushes) < MaxPushes
     /\ \E c \in SchedChannels, kind \in {"message", "noid"}, in \in PushInputs :
          push_human_message(c, kind, in)
  \/ TaskStep
  \/ \E r \in 1..Len(runs) : RunAgent(r, TRUE)
  \/ /\ Len(quota_calls) < MaxGateBoosts
     /\ \E chat_key \in Channels, amount \in Amounts : set_boost(chat_key, amount)
  \/ \E date \in Dates : DateChange(date)

SpecGate == Init /\ [][NextGate]_vars

\* ------------------------------------------------------------------ claims
\* the execution tasks of channel c that are inside `await run_agent(...)`
InAgent(c) == {r \in 1..Len(runs) : runs[r].chat_key = c /\ runs[r].pc = "agent"}

\* C1 (single-flight): in every reachable state at most one execution task
\* of a channel is running the agent.
C1_SingleFlight == \A c \in Channels : Cardinality(InAgent(c)) <= 1

\* the events the executions were started with, in the order of their start
ExecEvents == [i \in 1..Len(runs) |-> runs[i].ev]

\* no debounce handler is outstanding and every execution task has ended
Quiescent ==
  /\ \A d \in 1..Len(submits) : submits[d].pc \notin {"db", "sleep"}
  /\ \A r \in 1..Len(runs) : TaskDone(r)

\* exactly three submits were made, all to one channel, each less than the
\* debounce window after the one before
Burst3 ==
  /\ Len(submits) = 3
  /\ \A i \in 1..2 :
       /\ submits[i + 1].chat_key = submits[i].chat_key
       /\ submits[i + 1].start_time - submits[i].start_time < AI_DEBOUNCE_WAIT_SECONDS

\* C2 (coalescing): E1, E2, E3 submitted to an idle channel within less than
\* the debounce window of each other start exactly one execution, with E3:
\* never an execution with E1 or E2, never a second one, and one once the
\* debounce handlers have all fired.
C2_Coalescing ==
  Burst3 =>
    /\ Len(runs) <= 1
    /\ \A r \in 1..Len(runs) :
         runs[r].ev = 3 /\ runs[r].message = submits[3].message
    /\ (\A d \in 1..3 : submits[d].pc \notin {"db", "sleep"}) => Len(runs) = 1

\* C2 witness: a burst with three different stamps whose two first handlers
\* found their stamp stale and whose one execution, with E3, has ended.
C2_Witness ==
  /\ Burst3
  /\ submits[1].start_time < submits[2].start_time
  /\ submits[2].start_time < submits[3].start_time
  /\ submits[1].pc = "stale" /\ submits[2].pc = "stale" /\ submits[3].pc = "started"
  /\ Len(runs) = 1 /\ runs[1].ev = 3 /\ runs[1].pc = "done"

\* s is an initial part of t
IsPrefix(s, t) == Len(s) <= Len(t) /\ \A i \in 1..Len(s) : s[i] = t[i]

\* exactly two submits were made, to one channel, the second more than the
\* debounce window after the first
Spaced2 ==
  /\ Len(submits) = 2
  /\ submits[2].chat_key = submits[1].chat_key
  /\ submits[2].start_time - submits[1].start_time > AI_DEBOUNCE_WAIT_SECONDS

\* C4 as claimed (debounce timing): E1, then more than the debounce window
\* later E2, give exactly two executions, the first with E1 and the second
\* with E2.
C4_DebounceTiming ==
  Spaced2 =>
    /\ IsPrefix(ExecEvents, <<1, 2>>)
    /\ Quiescent => ExecEvents = <<1, 2>>

\* C4 as amended: the same, when E1's debounce handler had fired (its channel
\* lookup and then the window were over, so E1's execution was started)
\* before E2 was submitted.
C4_DebounceTimingFired ==
  (Spaced2 /\ submits[2].runs_before = 1) =>
    /\ IsPrefix(ExecEvents, <<1, 2>>)
    /\ Quiescent => ExecEvents = <<1, 2>>

\* C4 witness: E2 was submitted after E1's execution had ended, went through
\* its own debounce wait, and both executions have ended.
C4_Witness ==
  /\ Spaced2 /\ submits[2].runs_before = 1
  /\ submits[1].pc = "started" /\ submits[2].pc = "started"
  /\ Quiescent /\ ExecEvents = <<1, 2>>
  /\ runs[2].by = "debounce"

\* C6 (retry bound): an execution whose every attempt failed called the
\* agent-runner exactly 3 times; one that succeeded called it at most 3 times
\* and not again; either way the task ends in its completion handler, not by
\* an exception, and its running-task handle is gone.
C6_RetryBound ==
  \A r \in 1..Len(runs) :
    /\ runs[r].calls <= 3
    /\ runs[r].how = "exhausted" => runs[r].calls = 3
    /\ runs[r].how = "success" => runs[r].calls \in 1..3
    /\ runs[r].how \in {"exhausted", "success"} =>
         /\ runs[r].pc \in {"react_off", "done"}
         /\ running_tasks[runs[r].chat_key] # r

\* C6 witness: an execution failed three times and ended, and the channel is
\* idle: no handle, no pending message.
C6_Witness ==
  \E r \in 1..Len(runs) :
    /\ runs[r].how = "exhausted" /\ runs[r].calls = 3 /\ runs[r].pc = "done"
    /\ running_tasks[runs[r].chat_key] = NoTask
    /\ pending_messages[runs[r].chat_key] = NoMsg

\* C7 (guaranteed completion handler): every execution task that has ended
\* ran its completion handler to the end, and its handle is cleared.
C7_HandlerAlwaysRuns ==
  \A r \in 1..Len(runs) :
    TaskDone(r) => runs[r].pc = "done" /\ running_tasks[runs[r].chat_key] # r

\* task r ends in this step
Ends(r) == ~TaskDone(r) /\ TaskDone(r)'

\* C3 (re-chaining): when a task ends while the newest pending event of its
\* channel is one that was submitted while a task was running (it got no
\* debounce handler), the same step starts a new execution with that event.
C3_Rechain ==
  [][\A r \in 1..Len(runs) :
       LET c == runs[r].chat_key
           e == pending_messages[c].sid
       IN (Ends(r) /\ e # 0 /\ submits[e].pc = "none") =>
            /\ Len(runs') = Len(runs) + 1
            /\ runs'[Len(runs')].ev = e
            /\ runs'[Len(runs')].by = "rechain"
            /\ running_tasks'[c] = Len(runs')
            /\ pending_messages'[c] = NoMsg]_vars

\* stop call s was made while a task was running for its channel and an
\* event was pending, and it has returned
StoppedWithPending(s) ==
  /\ stops[s].pc = "returned"
  /\ stops[s].had_task
  /\ stops[s].had_pending # 0

\* C5 as claimed (cancellation preserves pending work): in the step in which
\* such a stop call returns, the event that was pending when it was called is
\* still the channel's pending event.
C5_PendingKept ==
  [][\A s \in 1..Len(stops) :
       (stops[s].pc # "returned" /\ StoppedWithPending(s)') =>
         pending_messages'[stops[s].chat_key].sid = stops[s].had_pending]_vars

\* C5 as amended: the cancellation does not lose the event.  Once the stop
\* call has returned, the event is still the channel's pending event, or an
\* execution was started with it (the cancelled task's completion handler
\* re-chains it at once), or a later submit to the channel replaced it.
C5_PendingNotLost ==
  \A s \in 1..Len(stops) :
    StoppedWithPending(s) =>
      LET c == stops[s].chat_key
          e == stops[s].had_pending
      IN \/ pending_messages[c].sid = e
         \/ \E r \in 1..Len(runs) : runs[r].ev = e
         \/ \E d \in (e + 1)..Len(submits) : submits[d].chat_key = c

\* C5 witness: the stop call returned after the task it cancelled had taken
\* the pending event in its completion handler and re-chained it.
C5_Witness ==
  \E s \in 1..Len(stops) :
    /\ StoppedWithPending(s)
    /\ stops[s].task # NoTask
    /\ runs[stops[s].task].how = "cancelled" /\ runs[stops[s].task].pc = "done"
    /\ pending_messages[stops[s].chat_key] = NoMsg
    /\ \E r \in 1..Len(runs) :
         runs[r].ev = stops[s].had_pending /\ runs[r].by = "rechain"

\* this step is a stop_chat_task call for a channel with no running task
IdleStopCall ==
  /\ Len(stops') = Len(stops) + 1
  /\ ~stops'[Len(stops')].had_task

\* this step is stop call s, made for a channel with no running task,
\* resuming after the sandbox-stop hook returned
IdleStopResume(s) ==
  /\ ~stops[s].had_task
  /\ stops[s].pc = "sandbox"
  /\ stops'[s].pc \in {"returned", "await_task"}

\* this step is the return of stop call s, made for a channel with no running
\* task
IdleStopReturn(s) ==
  /\ ~stops[s].had_task
  /\ stops[s].pc \in {"sandbox", "await_task"}
  /\ stops'[s].pc = "returned"

\* the channel of stop call s has a task that has not ended
StopFindsTask(s) ==
  /\ running_tasks[stops[s].chat_key] # NoTask
  /\ ~TaskDone(running_tasks[stops[s].chat_key])

\* C8 as claimed: stop_chat_task for a channel with no running task changes
\* neither the pending event nor the debounce stamp nor the running-task map,
\* cancels no task and returns false.
C8_IdleStopNoOp ==
  /\ [][IdleStopCall =>
          UNCHANGED <<pending_messages, debounce_timers, running_tasks>>]_vars
  /\ [][\A s \in 1..Len(stops) : IdleStopResume(s) =>
          /\ UNCHANGED <<pending_messages, debounce_timers, running_tasks, runs>>
          /\ stops'[s].pc = "returned"]_vars
  /\ [][\A s \in 1..Len(stops) : IdleStopReturn(s) => ~stops'[s].stopped]_vars

\* C8 as amended: such a call removes the channel's debounce stamp and leaves
\* the other stamps, the pending events and the running-task map unchanged.
\* When the sandbox-stop hook returns and the channel still has no running
\* task, the call changes nothing, cancels no task and returns what the hook
\* returned.  When a task was started for the channel while the hook was
\* awaited, the call requests the cancellation of that task and of no other,
\* waits for it and, when the task ended by return or cancellation, returns
\* true.
C8_IdleStopClearsStamp ==
  /\ [][IdleStopCall =>
          /\ UNCHANGED <<pending_messages, running_tasks>>
          /\ \A c \in SchedChannels :
               debounce_timers'[c] =
                 IF c = stops'[Len(stops')].chat_key THEN NoTimer
                 ELSE debounce_timers[c]]_vars
  /\ [][\A s \in 1..Len(stops) : IdleStopResume(s) =>
          /\ UNCHANGED <<pending_messages, debounce_timers, running_tasks>>
          /\ IF StopFindsTask(s)
             THEN /\ stops'[s].pc = "await_task"
                  /\ stops'[s].task = running_tasks[stops[s].chat_key]
                  /\ runs' = [runs EXCEPT
                                ![running_tasks[stops[s].chat_key]].must_cancel
                                  = TRUE]
             ELSE /\ stops'[s].pc = "returned"
                  /\ stops'[s].stopped = stops'[s].container_stopped
                  /\ UNCHANGED runs]_vars
  /\ [][\A s \in 1..Len(stops) :
          (IdleStopReturn(s) /\ stops[s].pc = "await_task") =>
            /\ UNCHANGED <<pending_messages, debounce_timers, running_tasks,
                           runs>>
            /\ runs[stops[s].task].pc \in {"done", "cancelled"}
            /\ stops'[s].stopped]_vars

\* C8 witness: a stop call made while the channel was debouncing (a pending
\* event, a stamp, no task) has returned false; the stamp is gone and the
\* event is still pending.
C8_Witness ==
  \E s \in 1..Len(stops) :
    /\ stops[s].pc = "returned" /\ ~stops[s].had_task /\ stops[s].task = NoTask
    /\ ~stops[s].stopped
    /\ stops[s].had_pending # 0
    /\ pending_messages[stops[s].chat_key].sid = stops[s].had_pending
    /\ debounce_timers[stops[s].chat_key] = NoTimer
    /\ running_tasks[stops[s].chat_key] = NoTask

\* C8, the other case: a stop call made for a channel with no running task
\* and no pending event has returned true without a container stopped, after
\* it cancelled the execution of an event submitted while the sandbox-stop
\* hook was awaited.
C8_WitnessLateTask ==
  \E s \in 1..Len(stops) :
    /\ stops[s].pc = "returned" /\ ~stops[s].had_task
    /\ stops[s].had_pending = 0
    /\ stops[s].task # NoTask
    /\ runs[stops[s].task].how = "cancelled"
    /\ stops[s].stopped /\ ~stops[s].container_stopped

\* C9 (sandbox-stop failure is isolated): a stop_chat_task call made while a
\* task runs never ends with the error of the sandbox-stop hook (it goes on to
\* cancel the task).
C9_SandboxFailureIsolated ==
  \A s \in 1..Len(stops) : stops[s].had_task => stops[s].pc # "raised"

\* the events subscriber s was handed: those it consumed, then its inbox
Stream(s) == subs[s].yielded \o subs[s].queue

\* subscriber s was registered under the topic of publish call p when the
\* call was made: it registered before it and had not unsubscribed
RegisteredAt(s, p) ==
  /\ subs[s].pc \in {"waiting", "closed"}
  /\ subs[s].reg_at < p
  /\ subs[s].pc = "closed" => p <= subs[s].unreg_at
  /\ subs[s].bc = published[p].bc
  /\ subs[s].topic = published[p].topic

\* C10 (broadcast fan-out): the event of a publish call is in the inbox
\* stream of exactly the subscribers registered under its topic when the call
\* was made; one that registers later never gets it.  Both broadcasters.
C10_FanOut ==
  \A s \in 1..Len(subs), p \in 1..Len(published) :
    (\E i \in 1..Len(Stream(s)) : Stream(s)[i] = p) <=> RegisteredAt(s, p)

\* C10 witness: on one topic of a broadcaster, an event is in the stream
\* of a subscriber registered before the publish and not in the stream of a
\* subscriber, still registered, that came after it.
C10_Witness ==
  \E p \in 1..Len(published), s1, s2 \in 1..Len(subs) :
    /\ RegisteredAt(s1, p)
    /\ \E i \in 1..Len(Stream(s1)) : Stream(s1)[i] = p
    /\ subs[s2].pc = "waiting" /\ subs[s2].reg_at >= p
    /\ subs[s2].bc = published[p].bc /\ subs[s2].topic = published[p].topic
    /\ Stream(s2) = <<>>

\* C11 (bounded per-subscriber buffering): every inbox made by subscribe has
\* a finite capacity (a positive maxsize), and no inbox ever holds more
\* not-yet-consumed events than that capacity.
C11_BoundedInbox ==
  \A s \in 1..Len(subs) :
    subs[s].pc = "waiting" =>
      QueueMaxsize > 0 /\ Len(subs[s].queue) <= QueueMaxsize

\* no inbox is ever full: the except-QueueFull branches of publish and
\* publish_update are never taken (the case C12 is about does not arise)
NeverFull == \A s \in 1..Len(subs) : ~full(subs[s].queue)

\* the number of times queue q is in the list
Occurrences(list, q) == Cardinality({i \in 1..Len(list) : list[i] = q})

\* the list subscriber s registers its queue in
ListOf(s) ==
  IF subs[s].bc = "message" THEN MbList(subs[s].topic) ELSE cb_queues

\* C13 (unsubscribe and topic garbage collection): a subscriber's inbox is in
\* the subscriber set of its topic exactly while it is registered, so
\* cancelling removes that inbox and no other; the message broadcaster maps
\* no topic key to an empty list, and the lists hold only inboxes subscribed
\* to their key.
C13_UnsubscribeGC ==
  /\ \A s \in 1..Len(subs) :
       Occurrences(ListOf(s), s) = IF subs[s].pc = "waiting" THEN 1 ELSE 0
  /\ \A k \in get_all_subscribed_channels :
       /\ mb_queues[k] # <<>>
       /\ \A i \in 1..Len(mb_queues[k]) :
            /\ subs[mb_queues[k][i]].bc = "message"
            /\ subs[mb_queues[k][i]].topic = k

\* C13 witness: one subscriber of a topic has cancelled while another one of
\* the same topic stays registered, and a second topic has lost its last
\* subscriber and is no longer a key.
C13_Witness ==
  \E s1, s2, s3 \in 1..Len(subs) :
    /\ subs[s1].bc = "message" /\ subs[s2].bc = "message" /\ subs[s3].bc = "message"
    /\ subs[s1].topic = subs[s2].topic /\ subs[s3].topic # subs[s1].topic
    /\ subs[s1].pc = "closed" /\ subs[s2].pc = "waiting" /\ subs[s3].pc = "closed"
    /\ mb_queues[subs[s2].topic] = <<s2>>
    /\ subs[s3].topic \notin get_all_subscribed_channels

\* ---- quota claims
\* call i writes the record of chat_key
WritesKey(i, chat_key) ==
  /\ quota_calls[i].key = chat_key
  /\ quota_calls[i].op \in {"set_boost", "add_boost", "clear_boost"}

\* no call strictly between i and j writes the record of chat_key
NoWriteBetween(i, j, chat_key) ==
  \A m \in (i + 1)..(j - 1) : ~WritesKey(m, chat_key)

\* the record of chat_key in a store, <<>> when there is none
RecordOf(boosts, chat_key) ==
  IF chat_key \in DOMAIN boosts THEN boosts[chat_key] ELSE <<>>

\* a call leaves the records of all keys but its own as they were
OthersKept(call) ==
  \A k \in Channels \ {call.key} :
    RecordOf(call.after, k) = RecordOf(call.before, k)

\* C14 (quota expiry): after set_boost(K, n) on day d and no other write to
\* K, get_boost(K) called on a day other than d returns 0, and add_boost(K, a)
\* called on a day other than d returns a and stores a.
C14_QuotaExpiry ==
  \A i, j \in 1..Len(quota_calls) :
    LET set == quota_calls[i]
        later == quota_calls[j]
    IN (/\ i < j
        /\ set.op = "set_boost"
        /\ later.key = set.key
        /\ later.date # set.date
        /\ NoWriteBetween(i, j, set.key))
       => /\ later.op = "get_boost" => later.ret = 0
          /\ later.op = "add_boost" =>
               /\ later.ret = later.amount
               /\ later.after[later.key].boost = later.amount

\* C14 witness: a positive boost was set, and on another day get_boost
\* returned 0 and then add_boost of a positive amount returned that amount.
C14_Witness ==
  /\ Len(quota_calls) >= 3
  /\ quota_calls[1].op = "set_boost" /\ quota_calls[1].amount > 0
  /\ quota_calls[2].op = "get_boost" /\ quota_calls[2].key = quota_calls[1].key
  /\ quota_calls[2].date # quota_calls[1].date /\ quota_calls[2].ret = 0
  /\ quota_calls[3].op = "add_boost" /\ quota_calls[3].key = quota_calls[1].key
  /\ quota_calls[3].date # quota_calls[1].date
  /\ quota_calls[3].amount > 0 /\ quota_calls[3].ret = quota_calls[3].amount

\* C15 (get_boost): it returns the stored amount when K has a record whose
\* date is the current date and 0 otherwise, and leaves the store as it was;
\* the store changes only within set_boost, add_boost and clear_boost, and
\* there only for the key of the call, so an expired record stays.
C15_GetBoostReadOnly ==
  /\ \A i \in 1..Len(quota_calls) :
       LET call == quota_calls[i]
       IN /\ OthersKept(call)
          /\ call.op = "get_boost" =>
               /\ call.after = call.before
               /\ call.ret =
                    IF /\ call.key \in DOMAIN call.before
                       /\ call.before[call.key].date =
                            <<call.date.year, call.date.month, call.date.day>>
                    THEN call.before[call.key].boost
                    ELSE 0
          /\ call.before = IF i = 1 THEN <<>> ELSE quota_calls[i - 1].after
  /\ daily_boosts = IF quota_calls = <<>> THEN <<>>
                    ELSE quota_calls[Len(quota_calls)].after

\* C15 witness: get_boost returned 0 for a key whose record holds a positive
\* amount under another date, and the record is still in the store.
C15_Witness ==
  \E i \in 1..Len(quota_calls) :
    LET call == quota_calls[i]
    IN /\ call.op = "get_boost" /\ call.ret = 0
       /\ call.key \in DOMAIN call.before
       /\ call.before[call.key].boost > 0
       /\ call.key \in DOMAIN daily_boosts
       /\ daily_boosts[call.key] = call.before[call.key]

\* C16 (add_boost): it returns what get_boost(K) gave just before the call
\* plus the amount, and stores that total under the date of the moment; two
\* add_boost(K, a), add_boost(K, b) on one day leave get_boost(K) at the
\* earlier same-day boost plus a plus b.
C16_AddBoost ==
  /\ \A i \in 1..Len(quota_calls) :
       LET call == quota_calls[i]
       IN call.op = "add_boost" =>
            /\ call.ret = GetBoost(call.before, call.key, call.date) + call.amount
            /\ call.after[call.key] =
                 [date |-> today_str(call.date2), boost |-> call.ret]
  /\ \A i \in 1..(Len(quota_calls) - 1) :
       LET a == quota_calls[i]
           b == quota_calls[i + 1]
       IN (/\ a.op = "add_boost" /\ b.op = "add_boost" /\ a.key = b.key
           /\ a.date2 = a.date /\ b.date = a.date /\ b.date2 = a.date)
          => GetBoost(b.after, a.key, a.date) =
               GetBoost(a.before, a.key, a.date) + a.amount + b.amount

\* C16 witness: a key with a positive same-day boost got two positive
\* add_boost calls on that day.
C16_Witness ==
  /\ Len(quota_calls) >= 3
  /\ quota_calls[2].op = "add_boost" /\ quota_calls[3].op = "add_boost"
  /\ quota_calls[2].key = quota_calls[3].key
  /\ quota_calls[2].amount > 0 /\ quota_calls[3].amount > 0
  /\ GetBoost(quota_calls[2].before, quota_calls[2].key, quota_calls[2].date) > 0
  /\ quota_calls[2].date2 = quota_calls[2].date
  /\ quota_calls[3].date = quota_calls[2].date
  /\ quota_calls[3].date2 = quota_calls[2].date
  /\ quota_calls[3].ret > quota_calls[2].ret

\* C17 (set_boost): it replaces the record of K by {today, n} and leaves the
\* records of the other keys as they were; a get_boost(K) that follows at once
\* on the same day returns n.
C17_SetBoost ==
  /\ \A i \in 1..Len(quota_calls) :
       LET call == quota_calls[i]
       IN call.op = "set_boost" =>
            /\ call.after[call.key] =
                 [date |-> <<call.date.year, call.date.month, call.date.day>>,
                  boost |-> call.amount]
            /\ DOMAIN call.after = DOMAIN call.before \cup {call.key}
            /\ OthersKept(call)
  /\ \A i \in 1..(Len(quota_calls) - 1) :
       LET set == quota_calls[i]
           get == quota_calls[i + 1]
       IN (/\ set.op = "set_boost" /\ get.op = "get_boost"
           /\ get.key = set.key /\ get.date = set.date)
          => get.ret = set.amount

\* C17 witness: a key whose record carried another date and another amount
\* was set, and the get_boost that followed on the same day returned the new
\* amount.
C17_Witness ==
  \E i \in 1..(Len(quota_calls) - 1) :
    LET set == quota_calls[i]
        get == quota_calls[i + 1]
    IN /\ set.op = "set_boost" /\ get.op = "get_boost" /\ get.key = set.key
       /\ get.date = set.date
       /\ set.key \in DOMAIN set.before
       /\ set.before[set.key].date # today_str(set.date)
       /\ set.before[set.key].boost # set.amount
       /\ get.ret = set.amount /\ set.amount > 0

\* C18 (clear_boost): it removes the record of K and nothing else, so until
\* the next write to K get_boost(K) returns 0 and add_boost(K, a) returns a;
\* on a key without a record it changes nothing.
C18_ClearBoost ==
  /\ \A i \in 1..Len(quota_calls) :
       LET call == quota_calls[i]
       IN call.op = "clear_boost" =>
            /\ call.key \notin DOMAIN call.after
            /\ OthersKept(call)
            /\ call.key \notin DOMAIN call.before => call.after = call.before
  /\ \A i, j \in 1..Len(quota_calls) :
       LET clear == quota_calls[i]
           later == quota_calls[j]
       IN (/\ i < j
           /\ clear.op = "clear_boost"
           /\ later.key = clear.key
           /\ NoWriteBetween(i, j, clear.key))
          => /\ later.op = "get_boost" => later.ret = 0
             /\ later.op = "add_boost" => later.ret = later.amount

\* C18 witness: a positive boost of the current day was cleared; the
\* add_boost of a positive amount that followed on that day returned the
\* amount.
C18_Witness ==
  \E i \in 1..(Len(quota_calls) - 1) :
    LET clear == quota_calls[i]
        later == quota_calls[i + 1]
    IN /\ clear.op = "clear_boost"
       /\ GetBoost(clear.before, clear.key, clear.date) > 0
       /\ later.op = "add_boost" /\ later.key = clear.key
       /\ later.date = clear.date
       /\ later.amount > 0 /\ later.ret = later.amount

\* ---- scheduler claims, continued
\* the submits made for channel c, by serial number
SubmitsOf(c) == {d \in 1..Len(submits) : submits[d].chat_key = c}

\* an execution of channel c was started after submit d was made
RunStartedSince(c, d) ==
  \E r \in (submits[d].runs_before + 1)..Len(runs) : runs[r].chat_key = c

\* C19 (last-write-wins pending slot): a channel's pending slot holds no
\* event or one submitted event; as long as no execution of the channel has
\* started since the channel's most recent submit, the slot holds exactly that
\* submit's event; and an event that was followed by another submit before any
\* execution started is discarded: no execution is ever invoked with it.
C19_LastWriteWins ==
  \A c \in Channels :
    /\ \/ pending_messages[c] = NoMsg
       \/ \E d \in SubmitsOf(c) : pending_messages[c] = submits[d].message
    /\ \A d \in SubmitsOf(c) :
         /\ (d = Len(submits) /\ ~RunStartedSince(c, d))
              => pending_messages[c] = submits[d].message
         /\ (\E d2 \in SubmitsOf(c) : d2 > d /\ ~RunStartedSince(c, d))
              => \A r \in 1..Len(runs) : runs[r].ev # d

\* C19 witness: three submits were made before any execution started, the
\* slot holds the third event, and later the one execution that resulted ran
\* the third event.
C19_Witness ==
  /\ Len(submits) = 3
  /\ \A d \in 1..3 : submits[d].chat_key = "c1" /\ submits[d].runs_before = 0
  /\ Len(runs) = 1 /\ runs[1].ev = 3 /\ runs[1].pc = "done"
  /\ pending_messages["c1"] = NoMsg

\* a task is running for channel c: the test of line 126
Busy(c) == running_tasks[c] # NoTask /\ ~TaskDone(running_tasks[c])

\* this step is a schedule_agent_task call for channel c
SubmitStep(c) ==
  /\ Len(submits') = Len(submits) + 1
  /\ submits'[Len(submits')].chat_key = c

\* a submit made while a task runs records the event and the stamp and does
\* nothing else: no debounce task, no change to the handle or to any task
C20_BusySubmitFrame ==
  \A c \in Channels :
    (SubmitStep(c) /\ Busy(c)) =>
      /\ pending_messages'[c] = submits'[Len(submits')].message
      /\ debounce_timers'[c] = clock
      /\ submits'[Len(submits')].pc = "none"
      /\ running_tasks' = running_tasks
      /\ runs' = runs
      /\ \A d \in 1..Len(submits) : submits'[d] = submits[d]

\* an event submitted while a task ran is only ever executed by re-chaining
\* in a completion handler, never by a debounce handler
C20_BusySubmitPickup ==
  \A r \in 1..Len(runs), d \in 1..Len(submits) :
    (runs[r].ev = d /\ submits[d].pc = "none") => runs[r].by = "rechain"

\* C20 (submit while a task runs): the submit records the event as pending and
\* refreshes the debounce stamp, starts no debounce wait and leaves the
\* running-task handle unchanged; the event is picked up only by a completion
\* handler.
C20_BusySubmit == [][C20_BusySubmitFrame]_vars /\ []C20_BusySubmitPickup

\* this step is debounce handler d waking from its sleep
WakeStep(d) == submits[d].pc = "sleep" /\ submits'[d].pc # "sleep"

\* the channel's stamp is not the one handler d captured: a newer one, or none
StampGone(d) == debounce_timers[submits[d].chat_key] # submits[d].start_time

\* C21 (stale debounce): a debounce handler that wakes and finds the
\* channel's stamp is not the one it captured (replaced by a newer submit, or
\* cleared by stop_chat_task or by a completion handler) returns without an
\* error, takes no pending event and starts no execution.
C21_StaleDebounce ==
  [][\A d \in 1..Len(submits) :
       (WakeStep(d) /\ StampGone(d)) =>
         /\ submits'[d].pc = "stale"
         /\ pending_messages' = pending_messages
         /\ runs' = runs
         /\ running_tasks' = running_tasks]_vars

\* what does hold of a handler that finds its stamp gone
C21_StaleTakesNothing ==
  [][\A d \in 1..Len(submits) :
       (WakeStep(d) /\ StampGone(d)) =>
         /\ submits'[d].pc \in {"stale", "keyerror"}
         /\ pending_messages' = pending_messages
         /\ runs' = runs
         /\ running_tasks' = running_tasks]_vars

\* this step starts execution r
StartStep(r) == Len(runs) < r /\ r <= Len(runs')

\* C22 (pending taken atomically with the start): the step that starts an
\* execution, in a debounce handler or in a completion handler, starts it with
\* the event in the channel's pending slot and leaves the slot empty; and no
\* two executions are ever started with the same event.
C22_TakenWithStart ==
  /\ [][\A r \in 1..(Len(runs) + 1) :
          StartStep(r) =>
            /\ Len(runs') = Len(runs) + 1
            /\ pending_messages[runs'[r].chat_key] # NoMsg
            /\ runs'[r].ev = pending_messages[runs'[r].chat_key].sid
            /\ pending_messages'[runs'[r].chat_key] = NoMsg]_vars
  /\ [](\A r1, r2 \in 1..Len(runs) : runs[r1].ev = runs[r2].ev => r1 = r2)

\* C22 witness: one execution was started by a debounce handler and one by
\* re-chaining, with different events, and the pending slot is empty.
C22_Witness ==
  /\ \E r1, r2 \in 1..Len(runs) :
       /\ runs[r1].by = "debounce" /\ runs[r2].by = "rechain"
       /\ runs[r1].ev # runs[r2].ev
  /\ pending_messages["c1"] = NoMsg

\* this step delivers a cancellation to execution r inside run_agent
CancelInAttempt(r) ==
  runs[r].pc = "agent" /\ runs[r].must_cancel /\ runs'[r] # runs[r]

\* C23 (cancellation is never retried): a cancellation delivered during an
\* attempt ends the retry loop: the same step enters the completion handler
\* (the handle of the execution is cleared), the outcome is "cancelled", and
\* the number of run_agent calls of the execution never grows afterwards.
C23_CancelNotRetried ==
  [][\A r \in 1..Len(runs) :
       /\ CancelInAttempt(r) =>
            /\ runs'[r].calls = runs[r].calls
            /\ runs'[r].how = "cancelled"
            /\ runs'[r].pc \in {"react_off", "done"}
            /\ running_tasks'[runs[r].chat_key] # r
       /\ runs[r].how = "cancelled" =>
            /\ runs'[r].calls = runs[r].calls
            /\ runs'[r].pc # "agent"]_vars

\* C23 witness: an execution was cancelled during its second attempt and has
\* finished, with two calls of run_agent.
C23_Witness ==
  \E r \in 1..Len(runs) :
    /\ runs[r].how = "cancelled" /\ runs[r].pc = "done" /\ runs[r].calls = 2
    /\ \E s \in 1..Len(stops) : stops[s].task = r /\ stops[s].pc = "returned"

\* stop_chat_task call s found a running task (line 68) and has returned
StoppedTask(s) == stops[s].task # NoTask /\ stops[s].pc = "returned"

\* C24 (stop waits for the cleanup): a stop_chat_task call that finds a task
\* running for the channel cancels it, returns only when the task has run its
\* completion handler to the end, and returns true.
C24_StopAwaitsCleanup ==
  \A s \in 1..Len(stops) :
    StoppedTask(s) =>
      /\ stops[s].stopped
      /\ runs[stops[s].task].how = "cancelled"
      /\ runs[stops[s].task].pc = "done"

\* what holds of such a call: it returns true once the task is over, whether
\* or not the task ran its completion handler
C24_StopAwaitsTask ==
  \A s \in 1..Len(stops) :
    StoppedTask(s) =>
      /\ stops[s].stopped
      /\ runs[stops[s].task].how = "cancelled"
      /\ TaskDone(stops[s].task)

\* nothing is in progress: every debounce handler, every execution and every
\* stop_chat_task call has ended
AllEnded ==
  /\ Quiescent
  /\ \A s \in 1..Len(stops) : stops[s].pc \in {"returned", "raised"}

\* C25 (a pending message is not dropped by cancel): an event that was
\* pending when stop_chat_task was called is eventually passed to an execution
\* unless a later submit replaces it.  Stated on the states in which nothing is
\* in progress any more: there the event has been executed or replaced.
C25_PendingEventuallyRun ==
  \A s \in 1..Len(stops) :
    (AllEnded /\ stops[s].had_pending # 0) =>
      \/ \E r \in 1..Len(runs) : runs[r].ev = stops[s].had_pending
      \/ \E d \in (stops[s].had_pending + 1)..Len(submits) :
           submits[d].chat_key = stops[s].chat_key

\* C26 (return to idle): once submissions have ceased and everything that
\* was started has ended, the channel has no running-task handle and no
\* pending event.
C26_ReturnToIdle ==
  \A c \in SchedChannels :
    AllEnded => running_tasks[c] = NoTask /\ pending_messages[c] = NoMsg

\* the debounce handlers of channel c that have not yet made their stamp test
Outstanding(c) ==
  {d \in SubmitsOf(c) : submits[d].pc \in {"db", "sleep"}}

\* C27 (unique stamps): the stamp a submit sets differs from the stamp of
\* every earlier debounce handler of the channel that is still outstanding, so
\* at most one outstanding handler matches the channel's current stamp.
C27_StampUnique ==
  \A c \in Channels :
    /\ \A d1, d2 \in Outstanding(c) :
         d1 # d2 => submits[d1].start_time # submits[d2].start_time
    /\ Cardinality({d \in Outstanding(c) :
                      submits[d].start_time = debounce_timers[c]}) <= 1

\* this step is the end of the completion handler of execution r
HandlerEnds(r) == runs[r].pc # "done" /\ runs'[r].pc = "done"

\* C28 (no event is lost by a failed run): when the completion handler of an
\* execution that exhausted its attempts ends, an event submitted meanwhile is
\* taken and a new execution is started with it in the same step; a submit made
\* after that handler ended finds the channel idle and starts a debounce
\* handler; and, nobody having called stop_chat_task, once everything has
\* ended every failed execution's channel is idle, its latest event executed.
\* Without a pending event the handler starts nothing and leaves no handle of
\* the ended execution behind.
C28_FailedRunLosesNothing ==
  /\ [][\A r \in 1..Len(runs) :
          (HandlerEnds(r) /\ runs'[r].how = "exhausted") =>
            LET c == runs[r].chat_key
            IN IF pending_messages[c] # NoMsg
               THEN /\ Len(runs') = Len(runs) + 1
                    /\ runs'[Len(runs')].ev = pending_messages[c].sid
                    /\ runs'[Len(runs')].by = "rechain"
                    /\ running_tasks'[c] = Len(runs')
                    /\ pending_messages'[c] = NoMsg
               ELSE /\ runs' = [runs EXCEPT ![r] = runs'[r]]
                    /\ running_tasks'[c] # r]_vars
  /\ [][\A c \in Channels :
          (/\ SubmitStep(c)
           /\ running_tasks[c] = NoTask
           /\ \E r \in 1..Len(runs) :
                runs[r].chat_key = c /\ runs[r].how = "exhausted")
          => submits'[Len(submits')].pc = "db"]_vars
  /\ [](\A r \in 1..Len(runs) :
          (runs[r].how = "exhausted" /\ stops = <<>> /\ AllEnded) =>
            /\ running_tasks[runs[r].chat_key] = NoTask
            /\ pending_messages[runs[r].chat_key] = NoMsg
            /\ \E r2 \in 1..Len(runs) : runs[r2].ev = Len(submits))

\* C28 witness: an execution failed three times; the event submitted during
\* it was re-chained by its completion handler and has been executed.
C28_Witness ==
  /\ Len(runs) = 2 /\ stops = <<>>
  /\ runs[1].how = "exhausted" /\ runs[1].calls = 3 /\ runs[1].pc = "done"
  /\ submits[2].pc = "none" /\ submits[2].runs_before = 1
  /\ runs[2].ev = 2 /\ runs[2].by = "rechain" /\ runs[2].pc = "done"

\* the subscriptions registered under topic T of broadcaster bc
Registered(bc, T) ==
  {s \in 1..Len(subs) :
     subs[s].bc = bc /\ subs[s].topic = T /\ subs[s].pc = "waiting"}

\* the value get_subscriber_count(T) of broadcaster bc returns in this state
CountOf(bc, T) ==
  IF bc = "message" THEN get_subscriber_count(T) ELSE cb_get_subscriber_count

\* the topics of the two broadcasters
Topics == {<<"message", k>> : k \in Channels} \cup {<<"channel", Global>>}

\* C29 (get_subscriber_count): the value equals the number of subscriptions
\* registered under the topic, 0 for a topic without any; it grows by one in
\* the step that registers a subscription, shrinks by one in the step that
\* cancels a registered one; and a call returns that value and leaves both
\* registries as they were.
C29_SubscriberCount ==
  /\ [](\A t \in Topics :
          /\ CountOf(t[1], t[2]) = Cardinality(Registered(t[1], t[2]))
          /\ (\A s \in 1..Len(subs) :
                (subs[s].bc = t[1] /\ subs[s].topic = t[2]) =>
                  subs[s].pc \in {"new", "discarded"})
             => CountOf(t[1], t[2]) = 0)
  /\ [][\A s \in 1..Len(subs) :
          LET bc == subs[s].bc
              T == subs[s].topic
          IN /\ (subs[s].pc = "new" /\ subs'[s].pc = "waiting") =>
                  CountOf(bc, T)' = CountOf(bc, T) + 1
             /\ (subs[s].pc = "waiting" /\ subs'[s].pc = "closed") =>
                  CountOf(bc, T)' = CountOf(bc, T) - 1]_vars
  /\ [][Len(counted') = Len(counted) + 1 =>
          LET call == counted'[Len(counted')]
          IN /\ call.ret = Cardinality(Registered(call.bc, call.topic))
             /\ mb_queues' = mb_queues
             /\ cb_queues' = cb_queues
             /\ subs' = subs]_vars

\* C29 witness: a call counted two registered subscriptions of one channel
\* while another channel had one, and a later call, after one of the two was
\* cancelled, counted one.
C29_Witness ==
  /\ Len(counted) = 2
  /\ counted[1].bc = "message" /\ counted[1].ret = 2
  /\ counted[2] = [counted[1] EXCEPT !.ret = 1]
  /\ \E s \in 1..Len(subs) :
       subs[s].topic = counted[1].topic /\ subs[s].pc = "closed"
  /\ \E s \in 1..Len(subs) :
       /\ subs[s].bc = "message" /\ subs[s].topic # counted[1].topic

\* this step is set_message_reaction raising in execution r
HookFails(r) == runs[r].pc # "raised" /\ runs'[r].pc = "raised"

\* C30 (presence-hook error isolation): in the step in which
\* set_message_reaction fails, before the first attempt or inside the
\* completion handler, the handle of the execution is cleared and a pending
\* event is taken and a new execution started with it.
C30_HookFailureIsolated ==
  [][\A r \in 1..Len(runs) :
       HookFails(r) =>
         LET c == runs[r].chat_key
         IN /\ running_tasks'[c] # r
            /\ pending_messages[c] # NoMsg =>
                 /\ pending_messages'[c] = NoMsg
                 /\ Len(runs') = Len(runs) + 1
                 /\ runs'[Len(runs')].ev = pending_messages[c].sid]_vars

\* this step is a push_human_message call
PushStep == Len(pushes') = Len(pushes) + 1

\* C31 (quota gate): in a push_human_message call with a positive limit and a
\* sender that is neither super user nor whitelisted, a submit is made only
\* if the daily count is below the limit plus the boost get_boost returns at
\* that moment; with a count at or above that sum no submit is made and the
\* scheduler's state is unchanged.
C31_QuotaGate ==
  [][PushStep =>
       LET p == pushes'[Len(pushes')]
           sum == p.limit + GetBoost(daily_boosts, p.chat_key, today)
       IN (p.limit > 0 /\ p.sender = "plain") =>
            /\ Len(submits') > Len(submits) => p.daily_count < sum
            /\ p.daily_count >= sum => schedVars' = schedVars]_vars

\* C31 witness: with limit 1 and today's boost 2 a plain sender's message was
\* submitted at count 2 while an execution was running.
C31_Witness ==
  /\ Len(pushes) = 1
  /\ GetBoost(daily_boosts, "c1", today) = 2
  /\ pushes[1].limit = 1 /\ pushes[1].sender = "plain"
  /\ pushes[1].daily_count = 2 /\ pushes[1].outcome = "submitted"
  /\ Len(submits) = 2 /\ submits[2].pc = "none"

\* C31 witness of the refusal: at count 3 the message was refused and the
\* running execution and the pending slot were left as they were.
C31_WitnessRefused ==
  /\ Len(pushes) = 1
  /\ GetBoost(daily_boosts, "c1", today) = 2
  /\ pushes[1].limit = 1 /\ pushes[1].sender = "plain"
  /\ pushes[1].daily_count = 3 /\ pushes[1].outcome = "limit"
  /\ Len(submits) = 1 /\ Len(runs) = 1

\* the channels whose call or task takes this step: a submit or stop call for
\* the channel is made, or a debounce handler, an execution or a stop call of
\* the channel moves on
Acting ==
  {c \in Channels :
     \/ Len(submits') > Len(submits) /\ submits'[Len(submits')].chat_key = c
     \/ Len(stops') > Len(stops) /\ stops'[Len(stops')].chat_key = c
     \/ \E d \in 1..Len(submits) :
          submits[d].chat_key = c /\ submits'[d].pc # submits[d].pc
     \/ \E s \in 1..Len(stops) :
          stops[s].chat_key = c /\ stops'[s].pc # stops[s].pc
     \/ \E r \in 1..Len(runs) :
          /\ runs[r].chat_key = c
          /\ <<runs'[r].pc, runs'[r].calls>> # <<runs[r].pc, runs[r].calls>>}

\* nothing of channel B changes in this step: its slots, its executions
\* (none started, none cancelled or advanced), its debounce handlers
Untouched(B) ==
  /\ pending_messages'[B] = pending_messages[B]
  /\ debounce_timers'[B] = debounce_timers[B]
  /\ running_tasks'[B] = running_tasks[B]
  /\ \A r \in 1..Len(runs') :
       runs'[r].chat_key = B => (r <= Len(runs) /\ runs'[r] = runs[r])
  /\ \A d \in 1..Len(submits') :
       submits'[d].chat_key = B => (d <= Len(submits) /\ submits'[d] = submits[d])

\* C32 (channel isolation): every step of a submit, a debounce handler, an
\* execution or a stop belongs to one channel, and leaves the pending event,
\* the stamp, the handle and the executions of every other channel as they
\* were.
C32_ChannelIsolation ==
  [][/\ Cardinality(Acting) <= 1
     /\ \A A \in Acting : \A B \in Channels \ {A} : Untouched(B)]_vars

\* C32 witness: stop_chat_task cancelled the execution of one channel while
\* the other channel's execution is inside run_agent with its handle set.
C32_Witness ==
  \E A, B \in Channels :
    /\ A # B
    /\ Len(stops) = 1 /\ stops[1].chat_key = A /\ stops[1].pc = "returned"
    /\ \E r \in 1..Len(runs) : runs[r].chat_key = A /\ runs[r].how = "cancelled"
    /\ running_tasks[B] # NoTask
    /\ runs[running_tasks[B]].chat_key = B
    /\ runs[running_tasks[B]].pc = "agent"

\* C33 (at most one execution per submission): no two executions were ever
\* started with the event of the same submit call, and no execution calls
\* run_agent more than 3 times.
C33_AtMostOnce ==
  /\ \A r1, r2 \in 1..Len(runs) : r1 # r2 => runs[r1].ev # runs[r2].ev
  /\ \A r \in 1..Len(runs) :
       /\ runs[r].ev \in 1..Len(submits)
       /\ runs[r].calls <= 3

\* C33 witness: the first event was retried and its execution then
\* cancelled by a stop; the event submitted meanwhile was re-chained; both
\* executions have ended.
C33_Witness ==
  /\ Len(runs) = 2 /\ Len(submits) = 2
  /\ runs[1].ev = 1 /\ runs[1].calls = 2 /\ runs[1].how = "cancelled"
  /\ runs[2].ev = 2 /\ runs[2].by = "rechain"
  /\ runs[1].pc = "done" /\ runs[2].pc = "done"
  /\ Len(stops) = 1 /\ stops[1].pc = "returned"

\* C34 (event/context pairing): every execution runs the agent with the ctx
\* of the submit call that brought its event (a call's ctx and its event carry
\* the call's serial number).
C34_CtxOfSameSubmit ==
  \A r \in 1..Len(runs) :
    runs[r].calls > 0 => runs[r].ctx = submits[runs[r].ev].ctx

\* the same for the executions a debounce handler started, with distinct
\* stamps
C34_DebounceCtx ==
  \A r \in 1..Len(runs) :
    (runs[r].by = "debounce" /\ runs[r].calls > 0
     /\ \A d1, d2 \in 1..Len(submits) :
          d1 # d2 => submits[d1].start_time # submits[d2].start_time)
    => runs[r].ctx = submits[runs[r].ev].ctx

\* C35 (placeholder normalisation): an execution whose event is the empty
\* placeholder of a chat_key-only submit runs the agent with no message,
\* whichever of the two places started it.
C35_PlaceholderIsNone ==
  \A r \in 1..Len(runs) :
    submits[runs[r].ev].message.empty => runs[r].message = NoMsg

\* the same for the executions a debounce handler started
C35_DebouncePath ==
  \A r \in 1..Len(runs) :
    (runs[r].by = "debounce" /\ submits[runs[r].ev].message.empty)
    => runs[r].message = NoMsg

\* C36 (the presence indicator is balanced): an execution calls the hook at
\* most once with True and at most once with False, however many attempts it
\* makes, never with False before True, and an execution that has ended and
\* called it with True has called it with False.
C36_ReactionBalanced ==
  \A r \in 1..Len(runs) :
    /\ runs[r].on <= 1 /\ runs[r].off <= runs[r].on
    /\ TaskDone(r) => runs[r].off = runs[r].on

\* the same for the executions that were not cancelled before their first
\* attempt
C36_BalancedOnceStarted ==
  \A r \in 1..Len(runs) :
    /\ runs[r].on <= 1 /\ runs[r].off <= runs[r].on
    /\ (TaskDone(r) /\ runs[r].calls > 0) => runs[r].off = runs[r].on

\* the publish calls made on the topic of subscriber s while it was
\* registered, in the order of the calls
RECURSIVE PublishedTo(_, _)
PublishedTo(s, n) ==
  IF n = 0 THEN <<>>
  ELSE IF RegisteredAt(s, n) THEN Append(PublishedTo(s, n - 1), n)
  ELSE PublishedTo(s, n - 1)

\* C37 (per-subscriber FIFO without duplication): what a subscriber was
\* handed, consumed events first and inbox after them, is the sequence of the
\* events published to its topic while it was registered, each once and in
\* the order of the publish calls; and every event the generator yields is
\* the oldest one of its inbox.
C37_SubscriberFifo ==
  /\ [](\A s \in 1..Len(subs) : Stream(s) = PublishedTo(s, Len(published)))
  /\ [][\A s \in 1..Len(subs) :
          subs'[s].yielded # subs[s].yielded =>
            /\ subs[s].queue # <<>>
            /\ subs'[s].yielded = Append(subs[s].yielded, Head(subs[s].queue))
            /\ subs'[s].queue = Tail(subs[s].queue)]_vars

\* C37 witness: two events were published to a subscriber's topic; it has
\* consumed the first and the second waits in its inbox, while a subscriber
\* that registered between the two calls holds only the second.
C37_Witness ==
  \E s1, s2 \in 1..Len(subs) :
    /\ subs[s1].yielded = <<1>> /\ subs[s1].queue = <<2>>
    /\ subs[s2].topic = subs[s1].topic /\ subs[s2].bc = subs[s1].bc
    /\ subs[s2].reg_at = 1 /\ Stream(s2) = <<2>>

\* this step is a publish call of broadcaster bc on topic T
PublishStep(bc, T) ==
  /\ Len(published') = Len(published) + 1
  /\ published'[Len(published')] = [bc |-> bc, topic |-> T]

\* this step unsubscribes the registered subscriber s
UnsubscribeStep(s) == subs[s].pc = "waiting" /\ subs'[s].pc = "closed"

\* C38 (topic isolation): a publish of the message broadcaster to T1 leaves
\* every subscriber of another topic, and every subscriber of the channel
\* broadcaster, as it was; the unsubscription of a subscriber of T1 leaves the
\* subscriber sets of the other topics and the inbox of every other
\* subscriber as they were.
C38_TopicIsolation ==
  /\ [][\A T1 \in Channels :
          PublishStep("message", T1) =>
            \A s \in 1..Len(subs) :
              (subs[s].bc # "message" \/ subs[s].topic # T1) =>
                subs'[s] = subs[s]]_vars
  /\ [][\A s \in 1..Len(subs) :
          (UnsubscribeStep(s) /\ subs[s].bc = "message") =>
            /\ \A T2 \in Channels \ {subs[s].topic} :
                 get_subscriber_count(T2)' = get_subscriber_count(T2)
                 /\ (T2 \in DOMAIN mb_queues =>
                      T2 \in DOMAIN mb_queues' /\ mb_queues'[T2] = mb_queues[T2])
            /\ cb_queues' = cb_queues
            /\ \A s2 \in 1..Len(subs) : s2 # s => subs'[s2] = subs[s2]]_vars

\* C38 witness: two topics had a registered subscriber each; an event was
\* published to the first topic only, its subscriber holds it and has then
\* unsubscribed; the other subscriber is registered with an empty inbox.
C38_Witness ==
  \E s1, s2 \in 1..Len(subs) :
    /\ subs[s1].bc = "message" /\ subs[s2].bc = "message"
    /\ subs[s1].topic # subs[s2].topic
    /\ Len(published) = 1 /\ published[1].topic = subs[s1].topic
    /\ subs[s1].reg_at = 0 /\ subs[s2].reg_at = 0
    /\ Stream(s1) = <<1>> /\ subs[s1].pc = "closed"
    /\ Stream(s2) = <<>> /\ subs[s2].pc = "waiting"
    /\ get_all_subscribed_channels = {subs[s2].topic}

\* C39 (publish never changes the registry): a publish call of either
\* broadcaster leaves both registries as they were and registers or
\* unregisters no subscription; on a topic without subscribers it changes no
\* inbox at all; and a subscription's inbox is empty when it registers.
C39_PublishKeepsRegistry ==
  /\ [][\A bc \in {"message", "channel"}, T \in Channels \cup {Global} :
          PublishStep(bc, T) =>
            /\ mb_queues' = mb_queues
            /\ cb_queues' = cb_queues
            /\ get_all_subscribed_channels' = get_all_subscribed_channels
            /\ \A s \in 1..Len(subs) : subs'[s].pc = subs[s].pc
            /\ CountOf(bc, T) = 0 => subs' = subs]_vars
  /\ [][\A s \in 1..Len(subs) :
          (subs[s].pc = "new" /\ subs'[s].pc = "waiting") =>
            subs'[s].queue = <<>> /\ subs'[s].yielded = <<>>]_vars

\* C39 witness: an event was published to a topic nobody was subscribed to;
\* a subscriber that registered under the topic afterwards has an empty
\* inbox, and it is the only entry of the registry.
C39_Witness ==
  \E s \in 1..Len(subs) :
    /\ Len(subs) = 1 /\ Len(published) = 1
    /\ subs[s].bc = "message" /\ published[1] = [bc |-> "message", topic |-> subs[s].topic]
    /\ subs[s].pc = "waiting" /\ subs[s].reg_at = 1
    /\ Stream(s) = <<>>
    /\ get_all_subscribed_channels = {subs[s].topic}

====
